---- MODULE Spec2Model ----
(***************************************************************************)
(* Model of scripts/check-node-pairs.py: the handshake / RPC session of    *)
(* check_node_pairs() driven by the callbacks of a WebSocketApp.           *)
(*                                                                         *)
(* Python / JSON values are tagged records (kind + content), so that       *)
(* None, booleans, strings, lists and dicts stay distinguishable.  The     *)
(* transport is the environment: it delivers callbacks one at a time, in   *)
(* any order, until it delivers the close notification.                    *)
(***************************************************************************)
EXTENDS Integers, Sequences, FiniteSets, TLC

\* ------------------------------------------------------------------ bounds
\* Number of on_message / on_error callbacks the transport delivers.
MaxCallbacks == 4

\* ------------------------------------------------------- Python values
None == [kind |-> "null"]

JBool(b) == [kind |-> "bool", b |-> b]

JStr(s) == [kind |-> "str", s |-> s]

JList(l) == [kind |-> "list", l |-> l]

JDict(f) == [kind |-> "dict", m |-> f]

\* A string whose characters are spelled out (for strings that get sliced).
JChars(c) == [kind |-> "chars", c |-> c]

EmptyDict == JDict([k \in {} |-> None])

\* A key that is left out when a dict is built.
Absent == [kind |-> "absent"]

\* Build a dict from <<key, value>> pairs, leaving out the Absent ones.
MkDict(pairs) ==
  LET present == {i \in 1..Len(pairs) : pairs[i][2].kind # "absent"}
      keys == {pairs[i][1] : i \in present}
  IN JDict([k \in keys |-> pairs[CHOOSE i \in present : pairs[i][1] = k][2]])

\* Variant: the test is `is not None`.
Truthy_not_none(v) == v.kind # "null"

\* Python truth value (`if x:`).
Truthy(v) ==
  CASE v.kind = "null" -> FALSE
    [] v.kind = "bool" -> v.b
    [] v.kind = "str" -> v.s # ""
    [] v.kind = "chars" -> Len(v.c) > 0
    [] v.kind = "list" -> Len(v.l) > 0
    [] v.kind = "dict" -> DOMAIN v.m # {}
    [] OTHER -> TRUE

\* Python `a == b` on the values used here.
PyEq(a, b) == a.kind = b.kind /\ a = b

isinstance_dict(v) == v.kind = "dict"

\* dict.get(key, default) on a value known to be a dict.
get(d, key, default) == IF key \in DOMAIN d.m THEN d.m[key] ELSE default

JNum(n) == [kind |-> "num", n |-> n]

\* type(v).__name__, as it appears in an AttributeError message.
TypeName(v) ==
  CASE v.kind = "null" -> "NoneType"
    [] v.kind = "bool" -> "bool"
    [] v.kind = "str" -> "str"
    [] v.kind = "chars" -> "str"
    [] v.kind = "num" -> "int"
    [] v.kind = "list" -> "list"
    [] OTHER -> "dict"

\* ------------------------------------------------------------ exceptions
NoExc == [type |-> "none", msg |-> ""]

Exc(t, m) == [type |-> t, msg |-> m]

\* str(e)
str(e) == JStr(e.msg)

\* ------------------------------------------------------------ wire text
\* A raw message is a text that is the JSON encoding of `value`
\* (enc = "json"), a text that is not JSON (enc = "invalid-json"), or a
\* binary message whose bytes are not UTF-8 (enc = "invalid-utf8").
json_dumps(v) == [enc |-> "json", value |-> v]

\* json.loads: the parsed value, or the exception it raises.
json_loads(message) ==
  CASE message.enc = "json" -> [exc |-> NoExc, value |-> message.value]
    [] message.enc = "invalid-json" ->
         [exc |-> Exc("JSONDecodeError", "Expecting value"), value |-> None]
    [] OTHER ->
         [exc |-> Exc("UnicodeDecodeError", "'utf-8' codec can't decode byte"),
          value |-> None]

\* ------------------------------------------------------- correlation ids
\* Variant: the same identifier on every call.
uuid4_constant(n) == "uuid-1"

\* uuid.uuid4() yields a fresh identifier on every call.
uuid4(n) == <<"uuid-1", "uuid-2">>[n]

connect_id == uuid4(1)

rpc_id == uuid4(2)

\* ------------------------------------------------------ outgoing requests
\* Variant: the connect request carries an empty token.
connect_req_empty_token(tok) ==
  JDict([type |-> JStr("req"),
         id |-> JStr(connect_id),
         method |-> JStr("connect"),
         params |-> JDict([
            minProtocol |-> JNum(3),
            maxProtocol |-> JNum(3),
            role |-> JStr("operator"),
            caps |-> JList(<<>>),
            auth |-> JDict([token |-> JStr("")])])])

connect_req(tok) ==
  JDict([type |-> JStr("req"),
         id |-> JStr(connect_id),
         method |-> JStr("connect"),
         params |-> JDict([
            minProtocol |-> JNum(3),
            maxProtocol |-> JNum(3),
            client |-> JDict([id |-> JStr("check-node-pairs"),
                              version |-> JStr("1.0.0"),
                              platform |-> JStr("cli"),
                              mode |-> JStr("backend")]),
            role |-> JStr("operator"),
            scopes |-> JList(<<JStr("operator.read"), JStr("operator.write"),
                               JStr("operator.pairing"), JStr("operator.admin")>>),
            caps |-> JList(<<>>),
            auth |-> JDict([token |-> JStr(tok)])])])

\* Variant: the call reuses the id of the connect request.
rpc_req_reused_id ==
  JDict([type |-> JStr("req"),
         id |-> JStr(connect_id),
         method |-> JStr("node.pair.list"),
         params |-> EmptyDict])

rpc_req ==
  JDict([type |-> JStr("req"),
         id |-> JStr(rpc_id),
         method |-> JStr("node.pair.list"),
         params |-> EmptyDict])

DefaultResult == JDict([pending |-> JList(<<>>), paired |-> JList(<<>>)])

\* ------------------------------------------------------------ on_message
\* The handler works on a record of the variables it captures (phase,
\* response_received, result, error_msg) plus what it does to the
\* transport during the call: `out` the texts passed to ws.send, `closes`
\* the number of ws.close() calls, `exc` the exception it caught and
\* `branch` the branch it took.

\* ws.send(text): the transport takes the text or raises.
ws_send(s, text, sendRaises) ==
  IF sendRaises
    THEN [s EXCEPT !.out = Append(@, text),
                   !.exc = Exc("WebSocketConnectionClosedException",
                               "Connection is already closed.")]
    ELSE [s EXCEPT !.out = Append(@, text)]

ws_close(s) == [s EXCEPT !.closes = @ + 1]

\* x.get("message", default) where x = frame.get("error", {}): an
\* AttributeError when x is not a dict.
error_message(s, frame, default) ==
  LET x == get(frame, "error", EmptyDict)
  IN IF isinstance_dict(x)
       THEN [s EXCEPT !.error_msg = get(x, "message", JStr(default))]
       ELSE [s EXCEPT !.exc = Exc("AttributeError",
                                  "'" \o TypeName(x) \o
                                    "' object has no attribute 'get'")]

is_challenge(frame) ==
  /\ PyEq(frame.m["type"], JStr("event"))
  /\ PyEq(get(frame, "event", None), JStr("connect.challenge"))

\* Variant: any response is taken for the connect response.
is_hello_res_any_id(frame) == PyEq(frame.m["type"], JStr("res"))

is_hello_res(frame) ==
  /\ PyEq(frame.m["type"], JStr("res"))
  /\ PyEq(get(frame, "id", None), JStr(connect_id))

is_rpc_res(frame) ==
  /\ PyEq(frame.m["type"], JStr("res"))
  /\ PyEq(get(frame, "id", None), JStr(rpc_id))

\* Variant: the connect request is sent without advancing the phase.
on_challenge_no_advance(s, tok, sendRaises) ==
  ws_send([s EXCEPT !.branch = "challenge"],
          json_dumps(connect_req(tok)), sendRaises)

\* Phase 1: the connect request is built, the phase is advanced, then the
\* request is sent.
on_challenge(s, tok, sendRaises) ==
  ws_send([s EXCEPT !.phase = "awaiting-hello", !.branch = "challenge"],
          json_dumps(connect_req(tok)), sendRaises)

\* Variant: node.pair.list is sent without advancing the phase.
on_hello_ok_no_advance(s, sendRaises) ==
  ws_send([s EXCEPT !.branch = "hello-ok"], json_dumps(rpc_req), sendRaises)

\* Phase 2, ok: the phase is advanced, then node.pair.list is sent.
on_hello_ok(s, sendRaises) ==
  ws_send([s EXCEPT !.phase = "awaiting-response", !.branch = "hello-ok"],
          json_dumps(rpc_req), sendRaises)

\* Phase 2, not ok: record the message, then close (not reached when the
\* lookup of the message raises).
on_hello_fail(s, frame) ==
  LET t == error_message([s EXCEPT !.branch = "hello-fail"], frame,
                         "Handshake failed")
  IN IF t.exc.type # "none" THEN t ELSE ws_close(t)

\* Variant: a failed call clears the result.
on_rpc_res_clears_result(s, frame) ==
  IF Truthy(get(frame, "ok", None))
    THEN ws_close([s EXCEPT !.result = get(frame, "payload", DefaultResult),
                            !.response_received = TRUE,
                            !.branch = "rpc-ok"])
    ELSE LET t == error_message([s EXCEPT !.branch = "rpc-fail", !.result = None],
                                frame, "RPC error")
         IN IF t.exc.type # "none" THEN t ELSE ws_close(t)

\* Phase 3: adopt the payload or record the message, then close.
on_rpc_res(s, frame) ==
  IF Truthy(get(frame, "ok", None))
    THEN ws_close([s EXCEPT !.result = get(frame, "payload", DefaultResult),
                            !.response_received = TRUE,
                            !.branch = "rpc-ok"])
    ELSE LET t == error_message([s EXCEPT !.branch = "rpc-fail"], frame,
                                "RPC error")
         IN IF t.exc.type # "none" THEN t ELSE ws_close(t)

\* The body of the try block once the frame is known to be a dict with a
\* "type" key.
dispatch(s, frame, tok, sendRaises) ==
  IF s.phase = "awaiting-challenge"
    THEN IF is_challenge(frame) THEN on_challenge(s, tok, sendRaises) ELSE s
  ELSE IF s.phase = "awaiting-hello"
    THEN IF is_hello_res(frame)
           THEN IF Truthy(get(frame, "ok", None))
                  THEN on_hello_ok(s, sendRaises)
                  ELSE on_hello_fail(s, frame)
           ELSE s
  ELSE IF s.phase = "awaiting-response"
    THEN IF is_rpc_res(frame) THEN on_rpc_res(s, frame) ELSE s
  ELSE s

\* The except clauses: JSONDecodeError and KeyError are dropped, any other
\* exception becomes the error message.
handle_exception(s) ==
  IF s.exc.type \in {"none", "JSONDecodeError", "KeyError"}
    THEN s
    ELSE [s EXCEPT !.error_msg = str(s.exc)]

on_message(s0, message, tok, sendRaises) ==
  LET s == [s0 EXCEPT !.out = <<>>, !.closes = 0, !.exc = NoExc,
                      !.branch = "ignored"]
      parsed == json_loads(message)
  IN IF parsed.exc.type # "none"
       THEN handle_exception([s EXCEPT !.exc = parsed.exc, !.branch = "dropped"])
     ELSE IF ~isinstance_dict(parsed.value) \/ "type" \notin DOMAIN parsed.value.m
       THEN [s EXCEPT !.branch = "dropped"]
     ELSE handle_exception(dispatch(s, parsed.value, tok, sendRaises))

\* ------------------------------------------------- what the gateway sends
\* The values the fields of an inbound frame are drawn from.
Tokens == {"tok-a", "tok-b"}

Letters ==
  <<"a", "b", "c", "d", "e", "f", "g", "h", "i", "j", "k", "l", "m", "n", "o",
    "p", "q", "r", "s", "t", "u", "v", "w", "x", "y", "z">>

\* The first n letters: a node token of length n.
Chars(n) == [i \in 1..n |-> Letters[i]]

PairedNode(tok) == JDict([nodeId |-> JStr("n1"), token |-> JChars(tok)])

NodePayload(tok) ==
  JDict([pending |-> JList(<<>>), paired |-> JList(<<PairedNode(tok)>>)])

Payloads ==
  {Absent, None, JList(<<JStr("n1")>>), NodePayload(Chars(26))}

\* Lengths of the node tokens of the further call results.
NodeTokenLengths == {0, 3, 20, 21}

NodePayloads == {NodePayload(Chars(n)) : n \in NodeTokenLengths}

ErrorValues ==
  {Absent, None, JStr("boom"), EmptyDict,
   JDict([message |-> JStr("bad token")]),
   JDict([message |-> JStr("")]),
   JDict([message |-> None])}

ResponseIds == {JStr(connect_id), JStr(rpc_id), JStr("uuid-x")}

Event(name) == MkDict(<< <<"type", JStr("event")>>, <<"event", name>> >>)

Response(id, ok, payload, error) ==
  MkDict(<< <<"type", JStr("res")>>, <<"id", id>>, <<"ok", ok>>,
            <<"payload", payload>>, <<"error", error>> >>)

Frames ==
  {Event(JStr("connect.challenge")), Event(JStr("tick")), Event(Absent)}
  \cup {Response(i, JBool(TRUE), p, Absent) : i \in ResponseIds, p \in Payloads}
  \cup {Response(i, JBool(FALSE), Absent, e) : i \in ResponseIds, e \in ErrorValues}
  \cup {Response(JStr(rpc_id), JBool(TRUE), p, Absent) : p \in NodePayloads}
  \cup {Response(Absent, JBool(TRUE), Absent, Absent),
        MkDict(<< <<"type", JStr("req")>>, <<"id", JStr(connect_id)>> >>)}

\* Values that are not frames: not a dict, or a dict without "type".
NonFrames ==
  {None, JList(<<>>), JStr("connect.challenge"),
   MkDict(<< <<"event", JStr("connect.challenge")>> >>),
   MkDict(<< <<"id", JStr(connect_id)>>, <<"ok", JBool(TRUE)>> >>),
   MkDict(<< <<"id", JStr(rpc_id)>>, <<"ok", JBool(FALSE)>> >>)}

Messages ==
  {json_dumps(v) : v \in Frames \cup NonFrames}
  \cup {[enc |-> "invalid-json", value |-> None],
        [enc |-> "invalid-utf8", value |-> None]}

\* What the transport reports to on_error: str(error).
TransportErrors == {"Connection refused", ""}

\* ------------------------------------------------------------------ main
\* sys.argv: the program name followed by the arguments.
ArgVs ==
  {<<"check-node-pairs.py">>,
   <<"check-node-pairs.py", "ws://gateway/rpc">>,
   <<"check-node-pairs.py", "ws://gateway/rpc", "">>}
  \cup {<<"check-node-pairs.py", "ws://gateway/rpc", t>> : t \in Tokens}

\* Variant: the token is not checked.
main_args_no_token_check(argv) ==
  IF Len(argv) < 2
    THEN [exit |-> TRUE, token |-> ""]
    ELSE [exit |-> FALSE, token |-> IF Len(argv) > 2 THEN argv[3] ELSE ""]

\* The argument checks of main: exit(1) without a URL or with a missing or
\* empty token, else the token handed to check_node_pairs.  (sys.argv[k] is
\* argv[k + 1].)
main_args(argv) ==
  IF Len(argv) < 2
    THEN [exit |-> TRUE, token |-> ""]
    ELSE LET tok == IF Len(argv) > 2 THEN argv[3] ELSE ""
         IN IF tok = "" THEN [exit |-> TRUE, token |-> tok]
                        ELSE [exit |-> FALSE, token |-> tok]

\* ---------------------------------------------------------- print_result
TokenPrefix == 20

Ellipsis == <<".", ".", ".">>

\* token[:20] followed by "..."
token_line(tok) ==
  SubSeq(tok, 1, IF Len(tok) < TokenPrefix THEN Len(tok) ELSE TokenPrefix)
    \o Ellipsis

\* The "Token:" lines print_result writes for the paired nodes from index i
\* on, and whether it raises: node.get on a node that is not a dict, or the
\* slice of a token that is no string, raises.
RECURSIVE paired_lines(_, _)
paired_lines(nodes, i) ==
  IF i > Len(nodes) THEN [raised |-> FALSE, lines |-> <<>>]
  ELSE IF ~isinstance_dict(nodes[i]) THEN [raised |-> TRUE, lines |-> <<>>]
  ELSE LET tok == get(nodes[i], "token", JChars(<<>>))
           rest == paired_lines(nodes, i + 1)
       IN IF ~Truthy(tok) THEN rest
          ELSE IF tok.kind # "chars" THEN [raised |-> TRUE, lines |-> <<>>]
          ELSE [raised |-> rest.raised,
                lines |-> <<token_line(tok.c)>> \o rest.lines]

\* print_result: result.get raises when the result is not a dict; the
\* paired nodes are walked when the "paired" value is true.
print_result(res) ==
  IF ~isinstance_dict(res) THEN [raised |-> TRUE, lines |-> <<>>]
  ELSE LET paired == get(res, "paired", JList(<<>>))
       IN IF ~Truthy(paired) THEN [raised |-> FALSE, lines |-> <<>>]
          ELSE IF paired.kind # "list" THEN [raised |-> TRUE, lines |-> <<>>]
          ELSE paired_lines(paired.l, 1)

\* ------------------------------------------------------------------ state
VARIABLES
  argv,               \* sys.argv
  exit_code,          \* the exit status of the process, -1 while it runs
  printed,            \* the "Token:" lines written by print_result
  token,              \* the token argument of check_node_pairs
  phase,              \* "awaiting-challenge" | "awaiting-hello" | "awaiting-response"
  response_received,
  result,
  error_msg,
  pc,                 \* where the program is: "main" before check_node_pairs,
                      \* "connecting" and "open" inside run_forever, "closed"
                      \* after it, then "raised" | "returned", at last "exit"
  sent,               \* the texts passed to ws.send, in order
  closes,             \* number of ws.close() calls
  callback,           \* the callback invoked last
  message,            \* the argument of the last on_message call
  exc,                \* the exception caught by the last on_message call
  branch,             \* the branch taken by the last on_message call
  handled,            \* history: the response branches taken so far, and
                      \* "on_error" once on_error has run
  calls               \* number of on_message / on_error calls so far

mainVars == <<argv, exit_code, printed>>

vars == <<argv, exit_code, printed, token, phase, response_received, result, error_msg, pc, sent, closes,
          callback, message, exc, branch, handled, calls>>

NoMessage == [enc |-> "none", value |-> None]

Init ==
  /\ argv \in ArgVs
  /\ exit_code = -1
  /\ printed = <<>>
  /\ token = ""
  /\ phase = "awaiting-challenge"
  /\ response_received = FALSE
  /\ result = DefaultResult
  /\ error_msg = None
  /\ pc = "main"
  /\ sent = <<>>
  /\ closes = 0
  /\ callback = "none"
  /\ message = NoMessage
  /\ exc = NoExc
  /\ branch = "none"
  /\ handled = {}
  /\ calls = 0

ResponseBranches == {"hello-ok", "hello-fail", "rpc-ok", "rpc-fail"}

\* main up to the call of check_node_pairs.
Main ==
  /\ pc = "main"
  /\ LET a == main_args(argv)
     IN /\ token' = a.token
        /\ pc' = IF a.exit THEN "exit" ELSE "connecting"
        /\ exit_code' = IF a.exit THEN 1 ELSE exit_code
  /\ UNCHANGED <<argv, printed, phase, response_received, result, error_msg,
                 sent, closes, callback, message, exc, branch, handled, calls>>

OnOpen ==
  /\ pc = "connecting"
  /\ pc' = "open"
  /\ callback' = "on_open"
  /\ UNCHANGED <<token, phase, response_received, result, error_msg, sent,
                 closes, message, exc, branch, handled, calls>>
  /\ UNCHANGED mainVars

OnMessage ==
  /\ pc = "open"
  /\ calls < MaxCallbacks
  /\ \E m \in Messages, sendRaises \in BOOLEAN :
       LET s == on_message([phase |-> phase,
                            response_received |-> response_received,
                            result |-> result, error_msg |-> error_msg,
                            out |-> <<>>, closes |-> 0, exc |-> NoExc,
                            branch |-> "none"],
                           m, token, sendRaises)
       IN /\ phase' = s.phase
          /\ response_received' = s.response_received
          /\ result' = s.result
          /\ error_msg' = s.error_msg
          /\ sent' = sent \o s.out
          /\ closes' = closes + s.closes
          /\ exc' = s.exc
          /\ branch' = s.branch
          /\ handled' = handled \cup ({s.branch} \cap ResponseBranches)
          /\ message' = m
  /\ callback' = "on_message"
  /\ calls' = calls + 1
  /\ UNCHANGED <<token, pc>>
  /\ UNCHANGED mainVars

OnError ==
  /\ pc \in {"connecting", "open"}
  /\ calls < MaxCallbacks
  /\ \E e \in TransportErrors : error_msg' = JStr(e)
  /\ callback' = "on_error"
  /\ calls' = calls + 1
  /\ handled' = handled \cup {"on_error"}
  /\ UNCHANGED <<token, phase, response_received, result, pc, sent, closes,
                 message, exc, branch>>
  /\ UNCHANGED mainVars

\* Variant: the close notification records an error.
OnClose_records_error ==
  /\ pc \in {"connecting", "open"}
  /\ response_received' = TRUE
  /\ error_msg' = JStr("Connection closed")
  /\ pc' = "closed"
  /\ callback' = "on_close"
  /\ UNCHANGED <<token, phase, result, sent, closes, message, exc,
                 branch, handled, calls>>
  /\ UNCHANGED mainVars

OnClose ==
  /\ pc \in {"connecting", "open"}
  /\ response_received' = TRUE
  /\ pc' = "closed"
  /\ callback' = "on_close"
  /\ UNCHANGED <<token, phase, result, error_msg, sent, closes, message, exc,
                 branch, handled, calls>>
  /\ UNCHANGED mainVars

\* After run_forever: raise Exception(error_msg) or return result.
Finish ==
  /\ pc = "closed"
  /\ pc' = IF Truthy(error_msg) THEN "raised" ELSE "returned"
  /\ UNCHANGED <<token, phase, response_received, result, error_msg, sent,
                 closes, callback, message, exc, branch, handled, calls>>
  /\ UNCHANGED mainVars

\* main after check_node_pairs: the error is printed and the process exits
\* with 1, or the result is printed; an exception of print_result is
\* reported the same way.
Report ==
  /\ pc \in {"raised", "returned"}
  /\ LET p == print_result(result)
     IN IF pc = "raised"
          THEN printed' = printed /\ exit_code' = 1
          ELSE printed' = p.lines /\ exit_code' = IF p.raised THEN 1 ELSE 0
  /\ pc' = "exit"
  /\ UNCHANGED <<argv, token, phase, response_received, result, error_msg,
                 sent, closes, callback, message, exc, branch, handled, calls>>

Next == Main \/ OnOpen \/ OnMessage \/ OnError \/ OnClose \/ Finish \/ Report

Spec == Init /\ [][Next]_vars

\* The close notification that follows a ws.close() call or a transport
\* error.
CloseDue == (closes > 0 \/ "on_error" \in handled) /\ OnClose

\* The program runs on when it can, the connection gets opened, and a
\* requested close or a transport error is followed by the close
\* notification.  What the
\* gateway sends, and whether it closes, is left to the gateway;
\* run_forever is called without a timeout.
FairSpec ==
  /\ Spec
  /\ WF_vars(Main)
  /\ WF_vars(OnOpen)
  /\ WF_vars(CloseDue)
  /\ WF_vars(Finish)
  /\ WF_vars(Report)

\* ============================================================ properties
\* Vocabulary of the properties, read off the raw message.
IsFrame(m) ==
  /\ m.enc = "json"
  /\ m.value.kind = "dict"
  /\ "type" \in DOMAIN m.value.m

Field(m, k) == IF k \in DOMAIN m.value.m THEN m.value.m[k] ELSE Absent

Same(a, b) == a.kind = b.kind /\ a = b

IsEvent(m) == IsFrame(m) /\ Same(Field(m, "type"), JStr("event"))

IsChallengeEvent(m) ==
  IsEvent(m) /\ Same(Field(m, "event"), JStr("connect.challenge"))

IsResponse(m) == IsFrame(m) /\ Same(Field(m, "type"), JStr("res"))

IsResponseTo(m, id) == IsResponse(m) /\ Same(Field(m, "id"), JStr(id))

OkTrue(m) == Same(Field(m, "ok"), JBool(TRUE))

OkFalse(m) == Same(Field(m, "ok"), JBool(FALSE))

\* The step is one call of on_message.
Delivered == callback' = "on_message" /\ calls' = calls + 1

IsRequestText(text, method) ==
  /\ text.enc = "json"
  /\ text.value.kind = "dict"
  /\ Same(Field(text, "type"), JStr("req"))
  /\ Same(Field(text, "method"), JStr(method))

Positions(method) == {i \in 1..Len(sent) : IsRequestText(sent[i], method)}

NumSent(seq, method) ==
  Cardinality({i \in 1..Len(seq) : IsRequestText(seq[i], method)})

Terminal == handled \cap {"hello-fail", "rpc-ok", "rpc-fail"} # {}

\* C1: once a connect Response with ok false has been handled in
\* awaiting-hello, no later step sends a node.pair.list Request.
C1_NoCallAfterRejection ==
  [][("hello-fail" \in handled)
       => NumSent(sent', "node.pair.list") = NumSent(sent, "node.pair.list")]_vars

\* The error a rejected handshake is to report: the response's
\* error.message, "Handshake failed" when it carries none.
ExpectedError(m, default) ==
  LET e == Field(m, "error")
  IN IF e.kind = "dict" /\ "message" \in DOMAIN e.m /\ e.m["message"].kind = "str"
          /\ e.m["message"].s # ""
       THEN e.m["message"]
       ELSE JStr(default)

\* C2: an invocation that has handled a connect Response with ok false in
\* awaiting-hello ends by raising (with the response's error.message, or
\* "Handshake failed"), never by returning a result.
C2_RejectionRaises ==
  ("hello-fail" \in handled /\ pc \in {"raised", "returned"}) => pc = "raised"

\* The result a successful call is to yield: the payload when it is a
\* mapping, the two empty lists otherwise.
ExpectedResult(m) ==
  IF Field(m, "payload").kind = "dict" THEN Field(m, "payload") ELSE DefaultResult

\* C3: a Response with id = rpc_id and ok true handled in awaiting-response
\* makes the result the payload when that is a mapping and the default
\* otherwise, and requests close.
C3_ResultIsPayloadOrDefault ==
  [][(Delivered /\ phase = "awaiting-response"
        /\ IsResponseTo(message', rpc_id) /\ OkTrue(message'))
       => /\ result' = ExpectedResult(message')
          /\ closes' = closes + 1]_vars

\* C4: a Response with id = connect_id and ok true handled in awaiting-hello
\* moves the phase to awaiting-response and passes exactly one Request to
\* send: type "req", method node.pair.list, empty params, an id other than
\* connect_id.
C4_HelloOkSendsCall ==
  [][(Delivered /\ phase = "awaiting-hello"
        /\ IsResponseTo(message', connect_id) /\ OkTrue(message'))
       => /\ phase' = "awaiting-response"
          /\ Len(sent') = Len(sent) + 1
          /\ SubSeq(sent', 1, Len(sent)) = sent
          /\ LET text == sent'[Len(sent')]
             IN /\ IsRequestText(text, "node.pair.list")
                /\ Same(Field(text, "params"), EmptyDict)
                /\ Field(text, "id").kind = "str"
                /\ Field(text, "id").s # connect_id
                /\ Field(text, "id").s = rpc_id]_vars

C4_Witness ==
  /\ callback = "on_message"
  /\ branch = "hello-ok"
  /\ IsResponseTo(message, connect_id) /\ OkTrue(message)
  /\ phase = "awaiting-response"
  /\ Len(sent) = 2
  /\ IsRequestText(sent[2], "node.pair.list")

\* C5: a connect.challenge Event handled in awaiting-challenge passes
\* exactly one Request to send, the connect Request with id = connect_id and
\* params.auth.token = the token of the invocation, and moves the phase to
\* awaiting-hello.
C5_ChallengeSendsConnect ==
  [][(Delivered /\ phase = "awaiting-challenge" /\ IsChallengeEvent(message'))
       => /\ phase' = "awaiting-hello"
          /\ Len(sent') = Len(sent) + 1
          /\ SubSeq(sent', 1, Len(sent)) = sent
          /\ LET text == sent'[Len(sent')]
             IN /\ IsRequestText(text, "connect")
                /\ Same(Field(text, "id"), JStr(connect_id))
                /\ Field(text, "params").kind = "dict"
                /\ "auth" \in DOMAIN Field(text, "params").m
                /\ Field(text, "params").m["auth"] = JDict([token |-> JStr(token)])]_vars

C5_Witness ==
  /\ callback = "on_message"
  /\ branch = "challenge"
  /\ IsChallengeEvent(message)
  /\ phase = "awaiting-hello"
  /\ Len(sent) = 1
  /\ IsRequestText(sent[1], "connect")

\* A frame the phase does not expect.
Unexpected(ph, m) ==
  \/ ph = "awaiting-hello" /\ IsResponse(m) /\ ~IsResponseTo(m, connect_id)
  \/ ph = "awaiting-response" /\ IsResponse(m) /\ ~IsResponseTo(m, rpc_id)
  \/ ph \in {"awaiting-hello", "awaiting-response"} /\ IsEvent(m)
  \/ ph = "awaiting-challenge" /\ (IsResponse(m) \/ (IsEvent(m) /\ ~IsChallengeEvent(m)))

\* C6: handling a frame the phase does not expect changes neither phase,
\* result nor error, sends nothing and requests no close.
C6_UnexpectedFrameIgnored ==
  [][(Delivered /\ Unexpected(phase, message'))
       => UNCHANGED <<phase, result, error_msg, sent, closes>>]_vars

C6_Witness ==
  /\ callback = "on_message"
  /\ branch = "ignored"
  /\ phase = "awaiting-hello"
  /\ IsResponseTo(message, rpc_id) /\ OkTrue(message)
  /\ Len(sent) = 1

\* C7: once a connect rejection or a Response to the call has been handled,
\* no later message changes the result or the error or causes a send.
C7_NothingAfterTerminal ==
  [][(Terminal /\ Delivered) => UNCHANGED <<result, error_msg, sent>>]_vars

\* A raw message that is no frame.
Malformed(m) == ~IsFrame(m)

\* C8: a malformed raw message changes neither phase, result nor error,
\* sends nothing and requests no close.
C8_MalformedDropped ==
  [][(Delivered /\ Malformed(message'))
       => UNCHANGED <<phase, result, error_msg, sent, closes>>]_vars

\* C9: when handling a frame raises an unexpected exception, its message
\* becomes the error and close is requested in that step.
C9_ExceptionTerminates ==
  [][(Delivered /\ exc'.type \in {"AttributeError", "WebSocketConnectionClosedException"})
       => /\ error_msg' = str(exc')
          /\ closes' = closes + 1]_vars

\* C10: at most one connect Request and at most one node.pair.list Request
\* are passed to send, the connect Request first, and the node.pair.list
\* Request only once a connect Response with ok true has been handled.
C10_TwoRequestsInOrder ==
  /\ Cardinality(Positions("connect")) <= 1
  /\ Cardinality(Positions("node.pair.list")) <= 1
  /\ \A j \in Positions("node.pair.list") : \E i \in Positions("connect") : i < j
  /\ Positions("node.pair.list") # {} => "hello-ok" \in handled

C10_Witness ==
  /\ Positions("connect") = {1}
  /\ Positions("node.pair.list") = {2}
  /\ calls = MaxCallbacks
  /\ IsChallengeEvent(message)

\* C11: the close notification changes neither result, error nor phase, and
\* the invocation then ends on what was accumulated: it returns the result
\* when no error is recorded and raises otherwise; a close before any
\* response and without a recorded error returns the default result.
C11_CloseKeepsAccumulated ==
  [][/\ (callback' = "on_close" /\ pc # "closed" /\ pc' = "closed")
          => UNCHANGED <<result, error_msg, phase, sent>>
     /\ (pc = "closed" /\ pc' # "closed")
          => /\ UNCHANGED <<result, error_msg>>
             /\ error_msg \in {None, JStr("")} => pc' = "returned"
             /\ (handled = {} /\ error_msg = None)
                  => (pc' = "returned" /\ result' = DefaultResult)]_vars

C11_Witness ==
  /\ pc = "returned"
  /\ callback = "on_close"
  /\ phase = "awaiting-hello"
  /\ handled = {}
  /\ error_msg = None
  /\ result = DefaultResult

\* A step that ends the exchange: a connect Response with ok false in
\* awaiting-hello, or a Response to the call in awaiting-response.
TerminalTransition(ph, m) ==
  \/ ph = "awaiting-hello" /\ IsResponseTo(m, connect_id) /\ OkFalse(m)
  \/ ph = "awaiting-response" /\ IsResponseTo(m, rpc_id) /\ (OkTrue(m) \/ OkFalse(m))

\* C13: close is requested in exactly the steps that handle a terminal
\* transition.
C13_CloseIffTerminalTransition ==
  [][(closes' = closes + 1) <=> (Delivered /\ TerminalTransition(phase, message'))]_vars

\* C14: an invocation to which the transport has delivered on_error ends by
\* raising, never by returning a result.
C14_TransportErrorRaises ==
  ("on_error" \in handled /\ pc \in {"raised", "returned"}) => pc = "raised"

RequestId(text) == Field(text, "id")

\* C17: no two Requests passed to send carry the same id.
C17_RequestIdsUnique ==
  \A i, j \in 1..Len(sent) :
     i # j => ~Same(RequestId(sent[i]), RequestId(sent[j]))

C17_Witness ==
  /\ Len(sent) = 2
  /\ RequestId(sent[1]) = JStr(connect_id)
  /\ RequestId(sent[2]) = JStr(rpc_id)
  /\ pc = "returned"

PhaseRank(ph) ==
  CASE ph = "awaiting-challenge" -> 0
    [] ph = "awaiting-hello" -> 1
    [] ph = "awaiting-response" -> 2
    [] OTHER -> 3

\* The phase is awaiting-hello or later iff the connect Request was passed
\* to send, and awaiting-response iff the node.pair.list Request was.
PhaseMatchesSent ==
  /\ PhaseRank(phase) <= 2
  /\ PhaseRank(phase) >= 1 <=> Positions("connect") # {}
  /\ PhaseRank(phase) = 2 <=> Positions("node.pair.list") # {}

\* C18: the phase only moves one step forward, a step changes the phase
\* iff it passes the Request of the next phase to send, and the phase
\* always matches the Requests passed to send so far.
C18_PhaseForwardWithSend ==
  [][/\ PhaseMatchesSent
     /\ PhaseMatchesSent'
     /\ phase' # phase
          => /\ PhaseRank(phase') = PhaseRank(phase) + 1
             /\ Len(sent') = Len(sent) + 1
             /\ IsRequestText(sent'[Len(sent')],
                              IF phase' = "awaiting-hello" THEN "connect"
                                                           ELSE "node.pair.list")
     /\ sent' # sent => phase' # phase]_vars

C18_Witness ==
  /\ phase = "awaiting-response"
  /\ branch = "hello-ok"
  /\ exc.type = "WebSocketConnectionClosedException"
  /\ Len(sent) = 2

\* C19: when run_forever has ended the invocation returns the result iff
\* the recorded error is None or empty and raises otherwise; on_error
\* replaces whatever error was recorded before and leaves the result alone.
C19_ReturnsIffNoError ==
  [][/\ (pc = "closed" /\ pc' # "closed")
          => /\ pc' \in {"returned", "raised"}
             /\ pc' = "returned" <=> error_msg \in {None, JStr("")}
             /\ UNCHANGED <<result, error_msg>>
     /\ (callback' = "on_error" /\ calls' = calls + 1)
          => /\ error_msg'.kind = "str"
             /\ error_msg'.s \in TransportErrors
             /\ UNCHANGED result]_vars

C19_Witness ==
  /\ pc = "raised"
  /\ handled = {"hello-ok", "rpc-ok", "on_error"}
  /\ branch = "rpc-ok"
  /\ result.kind = "dict"
  /\ result # DefaultResult
  /\ error_msg = JStr("Connection refused")

\* C20: only a step that handles a Response with id = rpc_id and ok true
\* in awaiting-response, after the node.pair.list Request was passed to
\* send, changes the result; a result other than the default implies that
\* such a Response has been handled.
C20_ResultOnlyFromCallResponse ==
  [][/\ ~Same(result', result)
          => /\ Delivered
             /\ phase = "awaiting-response"
             /\ IsResponseTo(message', rpc_id)
             /\ OkTrue(message')
             /\ Positions("node.pair.list") # {}
     /\ ~Same(result', DefaultResult) => "rpc-ok" \in handled']_vars

C20_Witness ==
  /\ callback = "on_message"
  /\ branch = "rpc-ok"
  /\ result.kind = "dict"
  /\ result # DefaultResult
  /\ Positions("node.pair.list") = {2}

NoUsableArgs == Len(argv) < 3 \/ argv[3] = ""

\* C15: without a URL, or with a missing or empty token, the process exits
\* with status 1 and the transport is never used: no callback runs and
\* nothing is sent.
C15_NoConnectionWithoutArgs ==
  NoUsableArgs
    => /\ pc \in {"main", "exit"}
       /\ pc = "exit" => exit_code = 1
       /\ callback = "none"
       /\ sent = <<>>
       /\ calls = 0
       /\ closes = 0

C15_Witness ==
  /\ Len(argv) = 3
  /\ argv[3] = ""
  /\ pc = "exit"
  /\ exit_code = 1
  /\ callback = "none"

\* line contains tok as a run of consecutive characters.
Contains(line, tok) ==
  \E k \in 0..(Len(line) - Len(tok)) : SubSeq(line, k + 1, k + Len(tok)) = tok

\* The non-empty tokens of the paired nodes of the result.
ShownTokens ==
  IF result.kind = "dict" /\ "paired" \in DOMAIN result.m
       /\ result.m["paired"].kind = "list"
    THEN {n.m["token"].c : n \in {result.m["paired"].l[i] :
                                    i \in 1..Len(result.m["paired"].l)}} \ {<<>>}
    ELSE {}

\* C16: once the report is printed, every non-empty node token appears as
\* its first 20 characters followed by an ellipsis, and no printed line
\* contains the whole token.
C16_TokenNeverShownInFull ==
  (pc = "exit" /\ exit_code = 0)
    => \A tok \in ShownTokens :
         /\ \E i \in 1..Len(printed) :
              printed[i] = SubSeq(tok, 1, IF Len(tok) < 20 THEN Len(tok) ELSE 20)
                             \o <<".", ".", ".">>
         /\ \A i \in 1..Len(printed) : ~Contains(printed[i], tok)

\* C12: every invocation that starts a session eventually leaves
\* check_node_pairs, by returning or raising.  (Runs that use up the
\* callbacks counted by MaxCallbacks are left aside, so that a run that
\* waits forever is one in which the gateway could still send.)
C12_EventuallyReturns ==
  (pc = "connecting") ~> (pc \in {"raised", "returned"} \/ calls = MaxCallbacks)

====
